---- MODULE Spec2Model ----
(***************************************************************************)
(* Sheet-to-ledger import pipeline of hcm-finance: circuit breaker, quota  *)
(* governor, change-detection cache, sync queue and worker, reconciliation *)
(* of sheet rows into staged transactions, approval workflow and the       *)
(* unlock-expiry sweep.                                                    *)
(***************************************************************************)
EXTENDS Integers, Sequences, FiniteSets, TLC

\* ------------------------------------------------------------------ bounds
NSheets == 2
MaxFailures == 6
BreakerTicks == 5
QuotaTicks == 2
NCallers == 2
MaxOver == 2
MaxRows == 1
MaxStaged == 2
MaxLedger == 2
MaxQueue == 1
MaxWaiting == 3
MaxFaultRow == 2
MaxBulk == 2
MaxAnomalies == 9
MaxIgnored == 1
BackoffTicks == 32
NApprovers == 2
MaxRanges == 2
MaxRequests == 1
MaxGrants == 2
GrantTicks == 3
PipelineTicks == 1

\* ------------------------------------------------------- program constants
FAILURE_THRESHOLD == 5
RESET_TIMEOUT_SECONDS == 30 * 60
MAX_REQUESTS_PER_MINUTE == 60
WINDOW_SECONDS == 60
DEFAULT_MAX_RETRIES == 4
BACKOFF_BASE == 2

UNLOCK_WINDOW_SECONDS == 24 * 60 * 60
CACHE_TTL_SECONDS == 24 * 60 * 60
JOB_ATTEMPTS == 3
PRIORITY_MANUAL == 1
PRIORITY_CRON == 10

Sheets == 1..NSheets
Callers == 1..NCallers

VARIABLES
    now,        \* wall clock, seconds
    circuit,    \* redis hash circuit_breaker:sheet:<id>, per sheet
    consec,     \* history: recordFailure calls since the last success/reset/expiry
    lastFailAt, \* history: time of the last recordFailure per sheet
    lastCall,   \* history: the last service call and its outcome
    rateCount,  \* redis counters google_api:rate_limit:<windowStart>
    caller,     \* executeWithBackoff invocations in flight
    opsStarted, \* history: wrapped operations started in the current window
    sheetRows,  \* the spreadsheets: data rows (A2:G) of each tab of each sheet
    sheetBroken,\* the provider rejects calls for the sheet (deleted, access revoked)
    staged,     \* table staging_transactions; the id is the position
    ledger,     \* table transactions (with the staged row each was promoted from)
    accountActive, \* an active BANK account exists
    cache,      \* redis keys sync_cache:sheet:<id>:<tab>
    nextUuid,   \* uuidv4(): the next fresh identifier
    passLog,    \* history: what the last pass over a tab did
    queue,      \* BullMQ queue sheet-sync: waiting jobs
    job,        \* the job the worker is running
    ctx,        \* processSheet executions: the worker's and the sweep's
    requests,   \* table edit_requests
    lockedMonths, \* externalSheet.lockedMonths
    sweep,      \* handleExpiredRequests in progress
    lastExt,    \* history: the last call to the spreadsheet provider
    jobLog,     \* history: how the last job ended
    activeSheets, \* externalSheet rows with isActive
    anomalies,  \* table anomalies; the id is the position
    scanned,    \* history: the staged rows scanTransaction was called for
    approving,  \* approve(id) requests in progress, statement by statement
    protections \* the 'Monthly Close' protected ranges each tab carries

breakerVars == <<circuit, consec, lastFailAt>>
quotaVars == <<rateCount, caller, opsStarted>>
sheetVars == <<sheetRows, sheetBroken>>
dbVars == <<staged, ledger, accountActive, nextUuid>>
schedVars == <<queue, job, activeSheets>>
lockVars == <<requests, lockedMonths, sweep>>
passVars == <<cache, ctx>>
histVars == <<passLog, lastExt, jobLog>>
anomalyVars == <<anomalies, scanned>>
sideVars == <<approving, protections>>
pipelineVars == <<sheetVars, dbVars, schedVars, lockVars, passVars, histVars, anomalyVars,
                  sideVars>>
vars == <<now, circuit, consec, lastFailAt, lastCall, rateCount, caller, opsStarted,
          sheetRows, sheetBroken, staged, ledger, accountActive, cache, nextUuid,
          passLog, queue, job, ctx, requests, lockedMonths, sweep, lastExt, jobLog,
          activeSheets, anomalies, scanned, approving, protections>>

NoCall == [op |-> "none", arg |-> 0, result |-> "none", before |-> "-"]

\* ---------------------------------------------------------------- redis keys
NoKey == [exists |-> FALSE, failures |-> 0, state |-> "", expireAt |-> 0]

\* A key with a TTL is gone once the clock reaches its expiry.
ExpireKeys(c, t) ==
    [s \in DOMAIN c |->
        IF c[s].exists /\ c[s].expireAt > 0 /\ t >= c[s].expireAt THEN NoKey ELSE c[s]]

\* ------------------------------------------------------------ circuit breaker
isCircuitOpen(s) == circuit[s].exists /\ circuit[s].state = "OPEN"

TripsAt_OffByOne(failures) == failures > FAILURE_THRESHOLD

TripsAt(failures) == failures >= FAILURE_THRESHOLD

\* hincrby failures 1; expire key RESET_TIMEOUT_SECONDS; state OPEN at the threshold
FailureRecorded(c, s) ==
    LET failures == c[s].failures + 1
    IN  [c EXCEPT ![s] = [exists |-> TRUE,
                          failures |-> failures,
                          state |-> IF TripsAt(failures) THEN "OPEN" ELSE c[s].state,
                          expireAt |-> now + RESET_TIMEOUT_SECONDS]]

\* del key
SuccessRecorded(c, s) == [c EXCEPT ![s] = NoKey]

recordFailure(s) ==
    /\ consec[s] < MaxFailures
    /\ circuit' = FailureRecorded(circuit, s)
    /\ consec' = [consec EXCEPT ![s] = @ + 1]
    /\ lastFailAt' = [lastFailAt EXCEPT ![s] = now]
    /\ lastCall' = [op |-> "recordFailure", arg |-> s,
                    result |-> IF TripsAt(circuit[s].failures + 1) THEN "tripped" ELSE "counted",
                    before |-> "-"]

recordSuccess(s) ==
    /\ circuit' = SuccessRecorded(circuit, s)
    /\ consec' = [consec EXCEPT ![s] = 0]
    /\ lastFailAt' = lastFailAt
    /\ lastCall' = [op |-> "recordSuccess", arg |-> s, result |-> "ok", before |-> "-"]

resetCircuit(s) ==
    /\ circuit' = [circuit EXCEPT ![s] = NoKey]
    /\ consec' = [consec EXCEPT ![s] = 0]
    /\ lastFailAt' = lastFailAt
    /\ lastCall' = [op |-> "resetCircuit", arg |-> s, result |-> "ok", before |-> "-"]

\* ------------------------------------------------------------- quota governor
WindowStart(t) == t - (t % WINDOW_SECONDS)

NoCount == [n |-> 0, expireAt |-> 0]

CountAt(rc, k) == IF k \in DOMAIN rc THEN rc[k] ELSE NoCount

\* incr windowKey; the first increment of a window sets the key's TTL
Incremented(rc, t) ==
    LET k == WindowStart(t)
        old == CountAt(rc, k)
        entry == [n |-> old.n + 1,
                  expireAt |-> IF old.n + 1 = 1 THEN t + WINDOW_SECONDS + 5 ELSE old.expireAt]
    IN  [x \in DOMAIN rc \cup {k} |-> IF x = k THEN entry ELSE rc[x]]

\* acquireToken's answer for the count it has just read back
TokenGranted(currentCount) == ~(currentCount > MAX_REQUESTS_PER_MINUTE)

\* A counter is read only under the key of the current window, so the key of a
\* past window is dead from the rollover on; its TTL only reclaims the storage.
ExpireCounts(rc, t) ==
    [k \in {x \in DOMAIN rc : t < rc[x].expireAt /\ x >= WindowStart(t)} |-> rc[k]]

Idle == [pc |-> "idle", attempt |-> 0, wakeAt |-> 0, maxRetries |-> DEFAULT_MAX_RETRIES,
         invoked |-> 0]

\* the wrapped operation is invoked: one more start in the window of `now`
OperationStarts(os) ==
    IF os.window = WindowStart(now) THEN [os EXCEPT !.n = @ + 1]
    ELSE [window |-> WindowStart(now), n |-> 1]

\* the window in which a caller that found the window exhausted proceeds
WaitUntil(t) == WindowStart(t) + WINDOW_SECONDS

\* executeWithBackoff(operation, maxRetries): entry
CallWith(p, maxRetries) ==
    /\ caller[p].pc = "idle"
    /\ caller' = [caller EXCEPT ![p] = [Idle EXCEPT !.pc = "acquire",
                                                    !.maxRetries = maxRetries]]
    /\ lastCall' = [op |-> "executeWithBackoff", arg |-> p, result |-> "called", before |-> "-"]
    /\ UNCHANGED <<now, breakerVars, rateCount, opsStarted, pipelineVars>>

\* executeWithBackoff(operation): maxRetries takes its default
Call(p) == CallWith(p, DEFAULT_MAX_RETRIES)

\* loop head: acquireToken, then either the operation or waitForRateLimit
Acquire(p) ==
    /\ caller[p].pc = "acquire"
    /\ CountAt(rateCount, WindowStart(now)).n < MAX_REQUESTS_PER_MINUTE + MaxOver
    /\ rateCount' = Incremented(rateCount, now)
    /\ LET granted == TokenGranted(rateCount'[WindowStart(now)].n)
       IN  /\ caller' = [caller EXCEPT ![p] =
                          IF granted THEN [@ EXCEPT !.pc = "run", !.invoked = @ + 1]
                          ELSE [@ EXCEPT !.pc = "wait", !.wakeAt = WaitUntil(now)]]
           /\ opsStarted' = IF granted THEN OperationStarts(opsStarted) ELSE opsStarted
           /\ lastCall' = [op |-> "acquireToken", arg |-> p,
                           result |-> IF granted THEN "granted" ELSE "exhausted", before |-> "-"]
    /\ UNCHANGED <<now, breakerVars, pipelineVars>>

\* waitForRateLimit's sleep is over: the operation is invoked
WaitOver(p) ==
    /\ caller[p].pc = "wait"
    /\ now >= caller[p].wakeAt
    /\ caller' = [caller EXCEPT ![p] = [@ EXCEPT !.pc = "run", !.wakeAt = 0,
                                                !.invoked = @ + 1]]
    /\ opsStarted' = OperationStarts(opsStarted)
    /\ lastCall' = [op |-> "waitForRateLimit", arg |-> p, result |-> "proceeds", before |-> "-"]
    /\ UNCHANGED <<now, breakerVars, rateCount, pipelineVars>>

OperationReturns(p) ==
    /\ caller[p].pc = "run"
    /\ caller' = [caller EXCEPT ![p] = Idle]
    /\ lastCall' = [op |-> "executeWithBackoff", arg |-> p, result |-> "returned", before |-> "-"]
    /\ UNCHANGED <<now, breakerVars, rateCount, opsStarted, pipelineVars>>

\* Math.pow(2, attempt + 1) seconds
BackoffSeconds_Linear(attempt) == BACKOFF_BASE * (attempt + 1)
BackoffSeconds(attempt) == BACKOFF_BASE ^ (attempt + 1)

\* the operation throws a 429: sleep 2^(attempt+1) seconds
OperationRateLimited(p) ==
    /\ caller[p].pc = "run"
    /\ caller' = [caller EXCEPT ![p] =
                    [@ EXCEPT !.pc = "backoff", !.wakeAt = now + BackoffSeconds(caller[p].attempt)]]
    /\ lastCall' = [op |-> "executeWithBackoff", arg |-> p, result |-> "429", before |-> "-"]
    /\ UNCHANGED <<now, breakerVars, rateCount, opsStarted, pipelineVars>>

\* the back-off sleep is over: next attempt, or re-raise after the last one
BackoffOver(p) ==
    /\ caller[p].pc = "backoff"
    /\ now >= caller[p].wakeAt
    /\ IF caller[p].attempt + 1 <= caller[p].maxRetries
       THEN /\ caller' = [caller EXCEPT ![p] =
                            [@ EXCEPT !.pc = "acquire", !.attempt = @ + 1, !.wakeAt = 0]]
            /\ lastCall' = [op |-> "executeWithBackoff", arg |-> p, result |-> "retry", before |-> "-"]
       ELSE /\ caller' = [caller EXCEPT ![p] = Idle]
            /\ lastCall' = [op |-> "executeWithBackoff", arg |-> p, result |-> "raised429",
                            before |-> "-", invoked |-> caller[p].invoked]
    /\ UNCHANGED <<now, breakerVars, rateCount, opsStarted, pipelineVars>>

\* the operation throws anything else: re-raised at once
OperationFails(p) ==
    /\ caller[p].pc = "run"
    /\ caller' = [caller EXCEPT ![p] = Idle]
    /\ lastCall' = [op |-> "executeWithBackoff", arg |-> p, result |-> "raised", before |-> "-"]
    /\ UNCHANGED <<now, breakerVars, rateCount, opsStarted, pipelineVars>>

\* ---------------------------------------------------------------- sheet rows
\* getTabNames(): the previous and the current month, in that order
TabNames == <<"Jan", "Feb">>
Tabs == {TabNames[i] : i \in 1..Len(TabNames)}

\* cell contents users type
DateCells == {"2025-01-15", "n/a"}
AmountCells == {"", "1000", "$2,000"}
DescriptionCell == <<"r", "e", "n", "t">>
CategoryCell == <<"o", "p", "s">>

BlankRow == [date |-> "", description |-> <<>>, category |-> <<>>, amount |-> "",
             receipt |-> "", status |-> "", uuid |-> 0]

TypedRow(d, a) == [BlankRow EXCEPT !.date = d, !.description = DescriptionCell,
                                   !.category = CategoryCell, !.amount = a]

\* month of new Date(dateStr), "" when the date does not parse
DateMonth(d) ==
    CASE d = "2025-01-15" -> "Jan"
      [] d = "2025-02-03" -> "Feb"
      [] d = "2025-01-18" -> "Jan"
      [] OTHER -> ""

IsInvalidDate(d) == DateMonth(d) = ""

\* !amountStr || amountStr.trim() === ''
IsBlankAmount(a) == a = ""

\* parseFloat of the amount cell with currency signs and commas removed; -1 stands for NaN
CleanAmount(a) ==
    CASE a = "1000" -> 1000
      [] a = "$2,000" -> 2000
      [] OTHER -> -1

\* JSON.stringify(rows[i]): the cells in column order
RowCells(row) ==
    <<row.date, row.description, row.category, row.amount, row.receipt, row.status, row.uuid>>

\* md5 of the row's JSON; digests of different contents differ
Md5(row) == <<"md5", RowCells(row)>>

\* sha256 of the JSON of all rows of the tab
computeHash(rows) == <<"sha256", [i \in 1..Len(rows) |-> RowCells(rows[i])]>>

\* ------------------------------------------------------------------ sanitizer
FORMULA_PREFIXES == {"=", "+", "-", "@", "\t", "\r", "\n"}
Whitespace == {" ", "\t", "\r", "\n"}

RECURSIVE TrimStart(_)
TrimStart(t) == IF t # <<>> /\ Head(t) \in Whitespace THEN TrimStart(Tail(t)) ELSE t

RECURSIVE TrimEnd(_)
TrimEnd(t) ==
    IF t # <<>> /\ t[Len(t)] \in Whitespace THEN TrimEnd(SubSeq(t, 1, Len(t) - 1)) ELSE t

Trim(t) == TrimEnd(TrimStart(t))

RECURSIVE StripPrefixes(_)
StripPrefixes(t) ==
    IF t # <<>> /\ Head(t) \in FORMULA_PREFIXES THEN StripPrefixes(Trim(Tail(t))) ELSE t

\* The DDE patterns all begin with "=", which the prefix loop has removed.
sanitizeString(input) == IF input = <<>> THEN <<>> ELSE StripPrefixes(Trim(input))

\* ------------------------------------------------------ change-detection cache
NoDigest == [digest |-> <<>>, expireAt |-> 0]

hasChanged_Always(c, s, tab, rows) == TRUE

\* redis.get(key) differs from the hash of the rows just fetched
hasChanged(c, s, tab, rows) == ~(c[s][tab].digest = computeHash(rows))

\* redis.set(key, hash, TTL_SECONDS)
updateHash(c, s, tab, rows) ==
    [c EXCEPT ![s][tab] = [digest |-> computeHash(rows), expireAt |-> now + CACHE_TTL_SECONDS]]

\* updateHash is the last statement of the tab's try block: an iteration that
\* raised before it leaves the key as it was
HashAfterPass_Early(c, s, tab, rows, raised) == updateHash(c, s, tab, rows)
HashAfterPass(c, s, tab, rows, raised) ==
    IF raised THEN c ELSE updateHash(c, s, tab, rows)

\* invalidate(sheetId): every tab's key of the sheet
invalidate(c, s) == [c EXCEPT ![s] = [tab \in Tabs |-> NoDigest]]

ExpireDigests(c, t) ==
    [s \in Sheets |-> [tab \in Tabs |->
        IF c[s][tab].expireAt > 0 /\ t >= c[s][tab].expireAt THEN NoDigest ELSE c[s][tab]]]

\* ------------------------------------------------- anomalies of a pass
VELOCITY_THRESHOLD == 50

\* prisma.anomaly.findFirst({ where: { stagingTransactionId, type } }); 0: none
ExistingAnomaly_None(anoms, tx, type) == 0
ExistingAnomaly(anoms, tx, type) ==
    IF \E k \in 1..Len(anoms) : anoms[k].tx = tx /\ anoms[k].type = type
    THEN CHOOSE k \in 1..Len(anoms) :
            /\ anoms[k].tx = tx /\ anoms[k].type = type
            /\ \A j \in 1..(k - 1) : ~(anoms[j].tx = tx /\ anoms[j].type = type)
    ELSE 0

createAnomaly(anoms, tx, type) ==
    IF ExistingAnomaly(anoms, tx, type) = 0
    THEN Append(anoms, [tx |-> tx, type |-> type, isIgnored |-> FALSE])
    ELSE anoms

\* findMany({ where: { externalSheetId, status: 'PENDING' }, orderBy: { createdAt:
\* 'desc' }, take: count }) on the table st
RECURSIVE LastPendingIn(_, _, _, _)
LastPendingIn(st, s, k, count) ==
    IF k = 0 \/ count = 0 THEN <<>>
    ELSE IF st[k].sheet = s /\ st[k].status = "PENDING"
    THEN <<k>> \o LastPendingIn(st, s, k - 1, count - 1)
    ELSE LastPendingIn(st, s, k - 1, count)

\* the PENDING rows of the sheet, latest first, at most count of them
LastPending(s, k, count) == LastPendingIn(staged, s, k, count)

\* createAnomaly(tx.id, 'VELOCITY', ...) for each of the rows found, which are
\* distinct: one anomaly more for each row that has none of the type
VelocityFlagged(anoms, txs) ==
    LET unflagged(tx) == ExistingAnomaly(anoms, tx, "VELOCITY") = 0
        new == SelectSeq(txs, unflagged)
    IN  anoms \o [i \in 1..Len(new) |->
                    [tx |-> new[i], type |-> "VELOCITY", isIgnored |-> FALSE]]

\* the anomalies after checkVelocity(s, count) on the table st
VelocityChecked(anoms, st, s, count) ==
    IF count > VELOCITY_THRESHOLD
    THEN VelocityFlagged(anoms, LastPendingIn(st, s, Len(st), count))
    ELSE anoms

\* ------------------------------------------------------- reconciliation of rows
FindBySyncUuid_Never(st, u) == 0

\* prisma.stagingTransaction.findUnique({ where: { syncUuid } }): position or 0
FindBySyncUuid(st, u) ==
    IF \E k \in 1..Len(st) : st[k].syncUuid = u
    THEN CHOOSE k \in 1..Len(st) : st[k].syncUuid = u
    ELSE 0

NewStaged(s, tab, i, row, u, desc, cat) ==
    [sheet |-> s, tab |-> tab, rowIndex |-> i + 1, amount |-> CleanAmount(row.amount),
     description |-> desc, category |-> cat, date |-> row.date,
     rawDataHash |-> Md5(row), syncUuid |-> u, status |-> "PENDING", note |-> <<>>]

StartOfPass(st, u) ==
    [staged |-> st, nextUuid |-> u, batch |-> <<>>, newRows |-> 0, updatedRows |-> 0,
     scans |-> 0]

\* the APPROVED branch: a changed digest queues the CONFLICT marker
ApprovedRowSeen(acc, existing, row, i) ==
    IF existing.rawDataHash # Md5(row)
    THEN [acc EXCEPT !.batch = Append(@, [row |-> i, col |-> "F", val |-> "CONFLICT"])]
    ELSE acc

\* the update of a record that is not APPROVED
StagedUpdated(rec, row, i) ==
    [rec EXCEPT !.amount = CleanAmount(row.amount), !.description = row.description,
                !.category = row.category, !.date = row.date,
                !.rawDataHash = Md5(row), !.rowIndex = i + 1]

\* one iteration of the row loop; i is the row's position below the header
ProcessRow(acc, row, i, s, tab) ==
    IF IsBlankAmount(row.amount) THEN acc
    ELSE IF IsInvalidDate(row.date)
    THEN [acc EXCEPT !.batch = Append(@, [row |-> i, col |-> "F", val |-> "INVALID DATE"])]
    ELSE IF row.uuid = 0
    THEN [acc EXCEPT
            !.staged = Append(@, NewStaged(s, tab, i, row, acc.nextUuid,
                                           sanitizeString(row.description),
                                           sanitizeString(row.category))),
            !.nextUuid = @ + 1,
            !.scans = @ + 1,
            !.batch = @ \o <<[row |-> i, col |-> "G", val |-> acc.nextUuid],
                             [row |-> i, col |-> "F", val |-> "STAGED"]>>,
            !.newRows = @ + 1]
    ELSE LET k == FindBySyncUuid(acc.staged, row.uuid)
         IN  IF k # 0
             THEN IF acc.staged[k].status = "APPROVED"
                  THEN ApprovedRowSeen(acc, acc.staged[k], row, i)
                  ELSE [acc EXCEPT !.staged[k] = StagedUpdated(@, row, i),
                                   !.scans = @ + 1,
                                   !.updatedRows = @ + 1]
             ELSE [acc EXCEPT
                     !.staged = Append(@, NewStaged(s, "", i, row, row.uuid,
                                                    row.description, row.category)),
                     !.scans = @ + 1,
                     !.newRows = @ + 1]

RECURSIVE ProcessRows(_, _, _, _, _)
ProcessRows(acc, rows, i, s, tab) ==
    IF i > Len(rows) THEN acc
    ELSE ProcessRows(ProcessRow(acc, rows[i], i, s, tab), rows, i + 1, s, tab)

\* The row loop when the anomaly scan of row rowFault raises (0: no scan
\* raises): nothing in the loop catches, so the loop ends there, with the
\* database effects of the rows before it and of the row's own create or
\* update. The set of one element binds next to the value computed for the row.
RECURSIVE ProcessRowsUntil(_, _, _, _, _, _)
ProcessRowsUntil(acc, rows, i, s, tab, rowFault) ==
    IF i > Len(rows) THEN [acc |-> acc, raisedAt |-> 0]
    ELSE CHOOSE out \in
            {IF i = rowFault /\ next.scans > acc.scans
             THEN [acc |-> next, raisedAt |-> i]
             ELSE ProcessRowsUntil(next, rows, i + 1, s, tab, rowFault) :
                next \in {ProcessRow(acc, rows[i], i, s, tab)}} : TRUE

\* a cell of a tab set to a value; rows the grid has below the data are blank
CellSet(rows, i, col, val) ==
    LET padded == [k \in 1..(IF i > Len(rows) THEN i ELSE Len(rows)) |->
                      IF k <= Len(rows) THEN rows[k] ELSE BlankRow]
    IN  [padded EXCEPT ![i] = IF col = "G" THEN [@ EXCEPT !.uuid = val]
                              ELSE [@ EXCEPT !.status = val]]

\* spreadsheets.values.batchUpdate({ data: batchUpdates })
RECURSIVE BatchApplied(_, _)
BatchApplied(rows, batch) ==
    IF batch = <<>> THEN rows
    ELSE BatchApplied(CellSet(rows, Head(batch).row, Head(batch).col, Head(batch).val),
                      Tail(batch))

\* ------------------------------------------------ the last step of the pipeline
\* lastCall, passLog, lastExt and jobLog describe the step just taken and
\* nothing older: a step that makes no pass, no provider call or ends no job
\* leaves the neutral value there.
NoExt == [sheet |-> 0, kind |-> "none", governed |-> FALSE, circuitOpen |-> FALSE]

\* a call to the spreadsheet provider for sheet s, and whether it went through
\* executeWithBackoff
ExtCall(s, kind, governed) ==
    [sheet |-> s, kind |-> kind, governed |-> governed, circuitOpen |-> isCircuitOpen(s)]

\* what one tab's iteration of processSheet did
NoPass == [sheet |-> 0, tab |-> "", skipped |-> FALSE, created |-> 0, updated |-> 0,
           scans |-> 0, writes |-> 0, raised |-> FALSE, failedRow |-> 0]

\* how the worker ended a job, and what it told the circuit breaker
NoJobLog == [sheet |-> 0, outcome |-> "none", raised |-> FALSE, recorded |-> "none"]

Noted(pass, ext, log) ==
    /\ passLog' = pass
    /\ lastExt' = ext
    /\ jobLog' = log

\* ----------------------------------------------------------- approval workflow
\* administrators whose requests the API serves at the same time
Approvers == 1..NApprovers

NotApproving == [pc |-> "idle", id |-> 0]

ApprovedMarker == "APPROVED (check mark)"
RejectedMarker == "REJECTED: reason"

StagedIds == 1..(Len(staged) + 1)

\* the id lists a bulk approval is called with
BulkLists == UNION {[1..n -> StagedIds] : n \in 1..MaxBulk}

\* SheetFeedbackService.updateRowStatus: the status cell of the row in the tab
\* named after the month of the staged date; a failure is logged and dropped
Feedback(st, marker) ==
    LET tab == DateMonth(st.date)
    IN  IF sheetBroken[st.sheet] \/ tab \notin Tabs THEN sheetRows
        ELSE [sheetRows EXCEPT ![st.sheet][tab] = CellSet(@, st.rowIndex - 1, "F", marker)]

\* the checks of approve(id) that precede the ledger insert all pass
Promotes(id) == id <= Len(staged) /\ staged[id].status = "PENDING" /\ accountActive

\* approve(id); updateFails: the update of the staged row's status, the
\* statement after the ledger insert, is rejected by the database
approve(id, updateFails) ==
    /\ Promotes(id) => Len(ledger) < MaxLedger
    /\ IF id > Len(staged)
       THEN /\ lastCall' = [op |-> "approve", arg |-> id, result |-> "NotFound", before |-> "-"]
            /\ lastExt' = NoExt
            /\ UNCHANGED <<staged, ledger, sheetRows>>
       ELSE IF staged[id].status # "PENDING"
       THEN /\ lastCall' = [op |-> "approve", arg |-> id, result |-> "BadRequest",
                            before |-> staged[id].status]
            /\ lastExt' = NoExt
            /\ UNCHANGED <<staged, ledger, sheetRows>>
       ELSE IF ~accountActive
       THEN /\ lastCall' = [op |-> "approve", arg |-> id, result |-> "BadRequest",
                            before |-> staged[id].status]
            /\ lastExt' = NoExt
            /\ UNCHANGED <<staged, ledger, sheetRows>>
       ELSE IF updateFails
       THEN /\ ledger' = Append(ledger, [amount |-> staged[id].amount, from |-> id])
            /\ lastCall' = [op |-> "approve", arg |-> id, result |-> "UpdateFailed",
                            before |-> staged[id].status]
            /\ lastExt' = NoExt
            /\ UNCHANGED <<staged, sheetRows>>
       ELSE /\ ledger' = Append(ledger, [amount |-> staged[id].amount, from |-> id])
            /\ staged' = [staged EXCEPT ![id].status = "APPROVED"]
            /\ sheetRows' = Feedback(staged[id], ApprovedMarker)
            /\ lastExt' = ExtCall(staged[id].sheet, "feedback", FALSE)
            /\ lastCall' = [op |-> "approve", arg |-> id, result |-> "ok",
                            before |-> staged[id].status]
    /\ passLog' = NoPass
    /\ jobLog' = NoJobLog
    /\ UNCHANGED <<now, breakerVars, quotaVars, anomalyVars, sideVars, sheetBroken, accountActive, nextUuid,
                   schedVars, lockVars, passVars>>

reject(id) ==
    /\ IF id > Len(staged)
       THEN /\ lastCall' = [op |-> "reject", arg |-> id, result |-> "NotFound", before |-> "-"]
            /\ lastExt' = NoExt
            /\ UNCHANGED <<staged, sheetRows>>
       ELSE /\ staged' = [staged EXCEPT ![id].status = "REJECTED",
                                        ![id].note = sanitizeString(<<"=", "n", "o">>)]
            /\ sheetRows' = Feedback(staged[id], RejectedMarker)
            /\ lastExt' = ExtCall(staged[id].sheet, "feedback", FALSE)
            /\ lastCall' = [op |-> "reject", arg |-> id, result |-> "ok",
                            before |-> staged[id].status]
    /\ passLog' = NoPass
    /\ jobLog' = NoJobLog
    /\ UNCHANGED <<now, breakerVars, quotaVars, anomalyVars, sideVars, sheetBroken, ledger, accountActive, nextUuid,
                   schedVars, lockVars, passVars>>

\* updateRowStatus applied to a given content of the sheets
FeedbackOn(rows, st, marker) ==
    LET tab == DateMonth(st.date)
    IN  IF sheetBroken[st.sheet] \/ tab \notin Tabs THEN rows
        ELSE [rows EXCEPT ![st.sheet][tab] = CellSet(@, st.rowIndex - 1, "F", marker)]

\* one approve(id) call of bulkApprove's loop on the database db, with the
\* entry it pushes to results; updateFails as in approve
ApproveIn(db, id, updateFails) ==
    IF id > Len(db.staged)
    THEN [db |-> db, entry |-> [id |-> id, status |-> "error", txId |-> 0]]
    ELSE IF db.staged[id].status # "PENDING" \/ ~accountActive
    THEN [db |-> db, entry |-> [id |-> id, status |-> "error", txId |-> 0]]
    ELSE LET inserted == Append(db.ledger, [amount |-> db.staged[id].amount, from |-> id])
         IN  IF updateFails
             THEN [db |-> [db EXCEPT !.ledger = inserted],
                   entry |-> [id |-> id, status |-> "error", txId |-> 0]]
             ELSE [db |-> [db EXCEPT !.ledger = inserted,
                                     !.staged[id].status = "APPROVED",
                                     !.sheetRows = FeedbackOn(@, db.staged[id], ApprovedMarker),
                                     !.fedBack = db.staged[id].sheet],
                   entry |-> [id |-> id, status |-> "success", txId |-> Len(inserted)]]

\* for (const id of ids) { try { approve(id) ... } catch { results.push(error) } }
RECURSIVE BulkApproved(_, _, _, _, _)
BulkApproved(db, results, ids, k, faults) ==
    IF k > Len(ids) THEN [db |-> db, results |-> results]
    ELSE LET out == ApproveIn(db, ids[k], k \in faults)
         IN  BulkApproved(out.db, Append(results, out.entry), ids, k + 1, faults)

\* bulkApprove(ids); faults: the positions of ids at which approve's update of
\* the staged row's status is rejected by the database
bulkApprove(ids, faults) ==
    LET out == BulkApproved([staged |-> staged, ledger |-> ledger, sheetRows |-> sheetRows,
                             fedBack |-> 0], <<>>, ids, 1, faults)
    IN  /\ Len(out.db.ledger) <= MaxLedger
        /\ staged' = out.db.staged
        /\ ledger' = out.db.ledger
        /\ sheetRows' = out.db.sheetRows
        /\ lastCall' = [op |-> "bulkApprove", arg |-> ids, result |-> "returned",
                        before |-> "-", results |-> out.results]
        /\ lastExt' = IF out.db.fedBack # 0
                      THEN ExtCall(out.db.fedBack, "feedback", FALSE)
                      ELSE NoExt
        /\ passLog' = NoPass
        /\ jobLog' = NoJobLog
        /\ UNCHANGED <<now, breakerVars, quotaVars, anomalyVars, sideVars, sheetBroken, accountActive, nextUuid,
                       schedVars, lockVars, passVars>>

\* approve(id) statement by statement, as the API runs it for administrator a
\* while it serves others: findUnique and the checks that follow it
approveRead(a, id) ==
    /\ approving[a].pc = "idle"
    /\ IF id > Len(staged)
       THEN /\ lastCall' = [op |-> "approve", arg |-> id, result |-> "NotFound", before |-> "-"]
            /\ UNCHANGED approving
       ELSE IF staged[id].status # "PENDING" \/ ~accountActive
       THEN /\ lastCall' = [op |-> "approve", arg |-> id, result |-> "BadRequest",
                            before |-> staged[id].status]
            /\ UNCHANGED approving
       ELSE /\ lastCall' = [op |-> "approve", arg |-> id, result |-> "proceeds",
                            before |-> staged[id].status]
            /\ approving' = [approving EXCEPT ![a] = [pc |-> "create", id |-> id]]
    /\ Noted(NoPass, NoExt, NoJobLog)
    /\ UNCHANGED <<now, breakerVars, quotaVars, anomalyVars, sheetVars, dbVars, schedVars,
                   lockVars, passVars, protections>>

\* prisma.transaction.create
approveCreate(a) ==
    /\ approving[a].pc = "create"
    /\ Len(ledger) < MaxLedger
    /\ ledger' = Append(ledger, [amount |-> staged[approving[a].id].amount,
                                 from |-> approving[a].id])
    /\ approving' = [approving EXCEPT ![a].pc = "update"]
    /\ lastCall' = [op |-> "approve", arg |-> approving[a].id, result |-> "created",
                    before |-> staged[approving[a].id].status]
    /\ Noted(NoPass, NoExt, NoJobLog)
    /\ UNCHANGED <<now, breakerVars, quotaVars, anomalyVars, sheetVars, staged, accountActive,
                   nextUuid, schedVars, lockVars, passVars, protections>>

\* prisma.stagingTransaction.update, the audit log and the feedback write; the
\* call returns the ledger transaction
approveUpdate(a) ==
    /\ approving[a].pc = "update"
    /\ LET id == approving[a].id
       IN  /\ staged' = [staged EXCEPT ![id].status = "APPROVED"]
           /\ sheetRows' = Feedback(staged[id], ApprovedMarker)
           /\ lastExt' = ExtCall(staged[id].sheet, "feedback", FALSE)
           /\ lastCall' = [op |-> "approve", arg |-> id, result |-> "ok",
                           before |-> staged[id].status]
    /\ approving' = [approving EXCEPT ![a] = NotApproving]
    /\ passLog' = NoPass
    /\ jobLog' = NoJobLog
    /\ UNCHANGED <<now, breakerVars, quotaVars, anomalyVars, sheetBroken, ledger, accountActive,
                   nextUuid, schedVars, lockVars, passVars, protections>>

\* ------------------------------------------------------------------ processSheet
Ctxs == {"worker", "sweep"}

NoCtx == [pc |-> "idle", sheet |-> 0, tabIdx |-> 0, rows |-> <<>>,
          totalNew |-> 0, totalUpdated |-> 0]

ProcessSheetBegins(s) == [NoCtx EXCEPT !.pc = "fetch", !.sheet = s, !.tabIdx = 1]

\* the tab loop moves on, or processSheet returns
TabDone(c, new, upd) ==
    IF c.tabIdx < Len(TabNames)
    THEN [c EXCEPT !.pc = "fetch", !.tabIdx = @ + 1, !.rows = <<>>,
                   !.totalNew = @ + new, !.totalUpdated = @ + upd]
    ELSE [c EXCEPT !.pc = "done", !.rows = <<>>,
                   !.totalNew = @ + new, !.totalUpdated = @ + upd]

\* the catch of the tab loop logs and re-throws
TabRaised(c) == [c EXCEPT !.pc = "raised", !.rows = <<>>]

\* executeWithBackoff(values.get(tab!A2:G))
FetchTab(x) ==
    /\ ctx[x].pc = "fetch"
    /\ LET s == ctx[x].sheet
           tab == TabNames[ctx[x].tabIdx]
       IN  /\ lastExt' = ExtCall(s, "values.get", TRUE)
           /\ IF sheetBroken[s]
              THEN /\ ctx' = [ctx EXCEPT ![x] = TabRaised(@)]
                   /\ passLog' = [NoPass EXCEPT !.sheet = s, !.tab = tab, !.raised = TRUE]
              ELSE /\ ctx' = [ctx EXCEPT ![x] = [@ EXCEPT !.pc = "rows",
                                                          !.rows = sheetRows[s][tab]]]
                   /\ passLog' = NoPass
    /\ lastCall' = NoCall
    /\ jobLog' = NoJobLog
    /\ UNCHANGED <<now, breakerVars, quotaVars, anomalyVars, sideVars, sheetVars, dbVars, schedVars, lockVars, cache>>

\* the rest of the tab's iteration: cache check, row loop, batched write-back,
\* updateHash; rowFault: the row whose anomaly scan raises, 0 for none
ReconcileTab(x, rowFault) ==
    /\ ctx[x].pc = "rows"
    /\ LET after == ProcessRowsUntil(StartOfPass(staged, nextUuid), ctx[x].rows, 1, ctx[x].sheet,
                                      TabNames[ctx[x].tabIdx], rowFault).acc.staged
       IN  Len(after) <= MaxStaged \/ Len(after) = Len(staged)
    /\ LET s == ctx[x].sheet
           tab == TabNames[ctx[x].tabIdx]
           rows == ctx[x].rows
           out == ProcessRowsUntil(StartOfPass(staged, nextUuid), rows, 1, s, tab, rowFault)
           acc == out.acc
           writes == IF Len(acc.batch) > 0 THEN 1 ELSE 0
           log == [sheet |-> s, tab |-> tab, skipped |-> FALSE,
                   created |-> acc.newRows, updated |-> acc.updatedRows,
                   scans |-> acc.scans, writes |-> writes, raised |-> FALSE,
                   failedRow |-> out.raisedAt]
       IN  IF ~hasChanged(cache, s, tab, rows)
           THEN /\ ctx' = [ctx EXCEPT ![x] = TabDone(@, 0, 0)]
                /\ passLog' = [NoPass EXCEPT !.sheet = s, !.tab = tab, !.skipped = TRUE]
                /\ lastExt' = NoExt
                /\ UNCHANGED <<staged, nextUuid, sheetRows, cache, anomalies>>
           ELSE /\ staged' = acc.staged
                /\ nextUuid' = acc.nextUuid
                /\ anomalies' = IF out.raisedAt # 0 THEN anomalies
                                ELSE VelocityChecked(anomalies, staged', s,
                                                     acc.newRows + acc.updatedRows)
                /\ IF out.raisedAt # 0
                   THEN /\ ctx' = [ctx EXCEPT ![x] = TabRaised(@)]
                        /\ passLog' = [log EXCEPT !.raised = TRUE, !.writes = 0]
                        /\ lastExt' = NoExt
                        /\ cache' = HashAfterPass(cache, s, tab, rows, TRUE)
                        /\ UNCHANGED sheetRows
                   ELSE IF writes = 0
                   THEN /\ cache' = HashAfterPass(cache, s, tab, rows, FALSE)
                        /\ ctx' = [ctx EXCEPT ![x] = TabDone(@, acc.newRows, acc.updatedRows)]
                        /\ passLog' = log
                        /\ lastExt' = NoExt
                        /\ UNCHANGED sheetRows
                   ELSE /\ lastExt' = ExtCall(s, "values.batchUpdate", TRUE)
                        /\ IF sheetBroken[s]
                           THEN /\ ctx' = [ctx EXCEPT ![x] = TabRaised(@)]
                                /\ passLog' = [log EXCEPT !.raised = TRUE]
                                /\ cache' = HashAfterPass(cache, s, tab, rows, TRUE)
                                /\ UNCHANGED sheetRows
                           ELSE /\ sheetRows' = [sheetRows EXCEPT ![s][tab] =
                                                    BatchApplied(@, acc.batch)]
                                /\ cache' = HashAfterPass(cache, s, tab, rows, FALSE)
                                /\ ctx' = [ctx EXCEPT ![x] =
                                             TabDone(@, acc.newRows, acc.updatedRows)]
                                /\ passLog' = log
    /\ lastCall' = NoCall
    /\ jobLog' = NoJobLog
    /\ UNCHANGED <<now, breakerVars, quotaVars, scanned, sideVars, sheetBroken, ledger, accountActive, schedVars,
                   lockVars>>

\* ------------------------------------------------------------ queue and worker
NoJob == [sheet |-> 0, priority |-> 0, attemptsMade |-> 0]

RECURSIVE SeqOfSet(_)
SeqOfSet(S) ==
    IF S = {} THEN <<>>
    ELSE LET m == CHOOSE x \in S : \A y \in S : x <= y
         IN  <<m>> \o SeqOfSet(S \ {m})

JobsFor(S, priority) ==
    LET ids == SeqOfSet(S)
    IN  [i \in 1..Len(ids) |-> [sheet |-> ids[i], priority |-> priority, attemptsMade |-> 0]]

NextJobIndex_Fifo(q) == 1

\* BullMQ: the lowest priority number first, first in first out within one
NextJobIndex(q) ==
    CHOOSE k \in 1..Len(q) :
        /\ \A m \in 1..Len(q) : q[k].priority <= q[m].priority
        /\ \A m \in 1..(k - 1) : q[m].priority > q[k].priority

Without(q, k) == SubSeq(q, 1, k - 1) \o SubSeq(q, k + 1, Len(q))

\* handleCron: queueAllActiveSheets(false), addCronSync for each active sheet
handleCron ==
    /\ queue' = queue \o JobsFor(activeSheets, PRIORITY_CRON)
    /\ lastCall' = NoCall
    /\ Noted(NoPass, NoExt, NoJobLog)
    /\ UNCHANGED <<now, breakerVars, quotaVars, anomalyVars, sideVars, sheetVars, dbVars, job, activeSheets, lockVars,
                   passVars>>

\* triggerManualSync: addManualSync for each active sheet, which first
\* invalidates the sheet's cache
triggerManualSync ==
    /\ queue' = queue \o JobsFor(activeSheets, PRIORITY_MANUAL)
    /\ cache' = [s \in Sheets |-> IF s \in activeSheets THEN invalidate(cache, s)[s]
                                  ELSE cache[s]]
    /\ lastCall' = NoCall
    /\ Noted(NoPass, NoExt, NoJobLog)
    /\ UNCHANGED <<now, breakerVars, quotaVars, anomalyVars, sideVars, sheetVars, dbVars, job, activeSheets, lockVars,
                   ctx>>

\* processJob: every exception of processSheet is caught and turned into a
\* result with success: false; processJob itself never throws
ProcessJobOutcome(c) == [threw |-> FALSE, success |-> c.pc = "done"]

\* a failed attempt goes back to the queue until JOB_ATTEMPTS are used up
Retried(q, j) ==
    IF j.attemptsMade + 1 < JOB_ATTEMPTS
    THEN Append(q, [j EXCEPT !.attemptsMade = @ + 1])
    ELSE q

\* The worker's callback up to the call of processSheet. redisFault: a redis
\* command of acquireToken fails, the one exception that reaches the worker's
\* catch.
WorkerTake(redisFault) ==
    /\ job = NoJob
    /\ queue # <<>>
    /\ LET k == NextJobIndex(queue)
           j == queue[k]
           rest == Without(queue, k)
       IN  IF isCircuitOpen(j.sheet)
           THEN /\ queue' = rest
                /\ jobLog' = [sheet |-> j.sheet, outcome |-> "skipped", raised |-> FALSE,
                              recorded |-> "none"]
                /\ lastCall' = NoCall
                /\ UNCHANGED <<breakerVars, job, ctx>>
           ELSE IF redisFault
           THEN /\ recordFailure(j.sheet)
                /\ queue' = Retried(rest, j)
                /\ jobLog' = [sheet |-> j.sheet, outcome |-> "failed", raised |-> FALSE,
                              recorded |-> "failure"]
                /\ UNCHANGED <<job, ctx>>
           ELSE /\ queue' = rest
                /\ job' = j
                /\ ctx' = [ctx EXCEPT !["worker"] = ProcessSheetBegins(j.sheet)]
                /\ lastCall' = NoCall
                /\ jobLog' = NoJobLog
                /\ UNCHANGED breakerVars
    /\ passLog' = NoPass
    /\ lastExt' = NoExt
    /\ UNCHANGED <<now, quotaVars, anomalyVars, sideVars, sheetVars, dbVars, activeSheets, lockVars, cache>>

\* processJob returns (or throws) and the worker records the job's outcome
WorkerFinish ==
    /\ job # NoJob
    /\ ctx["worker"].pc \in {"done", "raised"}
    /\ LET out == ProcessJobOutcome(ctx["worker"])
       IN  IF out.threw
           THEN /\ recordFailure(job.sheet)
                /\ queue' = Retried(queue, job)
                /\ jobLog' = [sheet |-> job.sheet, outcome |-> "failed",
                              raised |-> ctx["worker"].pc = "raised", recorded |-> "failure"]
           ELSE /\ recordSuccess(job.sheet)
                /\ queue' = queue
                /\ jobLog' = [sheet |-> job.sheet, outcome |-> "completed",
                              raised |-> ctx["worker"].pc = "raised", recorded |-> "success"]
    /\ job' = NoJob
    /\ ctx' = [ctx EXCEPT !["worker"] = NoCtx]
    /\ passLog' = NoPass
    /\ lastExt' = NoExt
    /\ UNCHANGED <<now, quotaVars, anomalyVars, sideVars, sheetVars, dbVars, activeSheets, lockVars, cache>>

\* ------------------------------------------------------- unlock grants and sweep
CurrentMonthName == "February"
RequestMonths == {"Jan", "February"}

\* lockMonth / unlockMonth raise when the provider rejects the call or no tab
\* carries the month as its title; lockMonth also refuses the current month
LockRaises(s, m) == sheetBroken[s] \/ m = CurrentMonthName \/ m \notin Tabs
UnlockRaises(s, m) == sheetBroken[s] \/ m \notin Tabs

\* addProtectedRange: every successful lockMonth adds a range to the tab
RangeAdded(pr, s, m) == [pr EXCEPT ![s][m] = @ + 1]

\* deleteProtectedRange of the range that find() returns: the first one, if any
RangeDeleted(pr, s, m) == [pr EXCEPT ![s][m] = IF @ > 0 THEN @ - 1 ELSE @]

\* the tab of the current month, as getTabNames and the sheet factory name it
CurrentMonthTab == TabNames[Len(TabNames)]

\* the month a lock or unlock is asked for: a tab title or the month's full name
MonthArgs == Tabs \cup {CurrentMonthName}

\* lockMonth(externalSheetId, month) called through the lock endpoint
lockMonth(s, m) ==
    /\ ~LockRaises(s, m) => protections[s][m] < MaxRanges
    /\ IF sheetBroken[s]
       THEN /\ lastExt' = ExtCall(s, "spreadsheets.get", FALSE)
            /\ lastCall' = [op |-> "lockMonth", arg |-> s, result |-> "raised",
                            before |-> "-", month |-> m]
            /\ UNCHANGED <<lockedMonths, protections>>
       ELSE IF m = CurrentMonthName
       THEN /\ lastExt' = ExtCall(s, "spreadsheets.get", FALSE)
            /\ lastCall' = [op |-> "lockMonth", arg |-> s, result |-> "BadRequest",
                            before |-> "-", month |-> m]
            /\ UNCHANGED <<lockedMonths, protections>>
       ELSE IF m \notin Tabs
       THEN /\ lastExt' = ExtCall(s, "spreadsheets.get", FALSE)
            /\ lastCall' = [op |-> "lockMonth", arg |-> s, result |-> "BadRequest",
                            before |-> "-", month |-> m]
            /\ UNCHANGED <<lockedMonths, protections>>
       ELSE /\ lastExt' = ExtCall(s, "batchUpdate addProtectedRange tabColor", FALSE)
            /\ lastCall' = [op |-> "lockMonth", arg |-> s, result |-> "ok",
                            before |-> "-", month |-> m]
            /\ lockedMonths' = [lockedMonths EXCEPT ![s] = @ \cup {m}]
            /\ protections' = RangeAdded(protections, s, m)
    /\ passLog' = NoPass
    /\ jobLog' = NoJobLog
    /\ UNCHANGED <<now, breakerVars, quotaVars, anomalyVars, sheetVars, dbVars, schedVars,
                   requests, sweep, passVars, approving>>

\* unlockMonth(externalSheetId, month) called through the lock endpoint
unlockMonth(s, m) ==
    /\ IF sheetBroken[s]
       THEN /\ lastExt' = ExtCall(s, "spreadsheets.get", FALSE)
            /\ lastCall' = [op |-> "unlockMonth", arg |-> s, result |-> "raised",
                            before |-> "-", month |-> m]
            /\ UNCHANGED <<lockedMonths, protections>>
       ELSE IF m \notin Tabs
       THEN /\ lastExt' = ExtCall(s, "spreadsheets.get", FALSE)
            /\ lastCall' = [op |-> "unlockMonth", arg |-> s, result |-> "BadRequest",
                            before |-> "-", month |-> m]
            /\ UNCHANGED <<lockedMonths, protections>>
       ELSE /\ lastExt' = ExtCall(s, "batchUpdate deleteProtectedRange tabColor", FALSE)
            /\ lastCall' = [op |-> "unlockMonth", arg |-> s, result |-> "ok",
                            before |-> "-", month |-> m]
            /\ lockedMonths' = [lockedMonths EXCEPT ![s] = @ \ {m}]
            /\ protections' = RangeDeleted(protections, s, m)
    /\ passLog' = NoPass
    /\ jobLog' = NoJobLog
    /\ UNCHANGED <<now, breakerVars, quotaVars, anomalyVars, sheetVars, dbVars, schedVars,
                   requests, sweep, passVars, approving>>

\* handleMonthlyLocking, at 00:01 on the first of the month: the full name of
\* the previous month, and lockMonth for every active sheet inside a try/catch
PreviousMonthName == "January"

handleMonthlyLocking ==
    /\ activeSheets # {}
    /\ LET locked == {s \in activeSheets : ~LockRaises(s, PreviousMonthName)}
           last == CHOOSE s \in activeSheets : \A o \in activeSheets : o <= s
       IN  /\ \A s \in locked : protections[s][PreviousMonthName] < MaxRanges
           /\ lockedMonths' = [s \in Sheets |->
                    IF s \in locked THEN lockedMonths[s] \cup {PreviousMonthName}
                    ELSE lockedMonths[s]]
           /\ protections' = [s \in Sheets |->
                    IF s \in locked THEN RangeAdded(protections, s, PreviousMonthName)[s]
                    ELSE protections[s]]
           /\ lastExt' = ExtCall(last, IF last \in locked
                                       THEN "batchUpdate addProtectedRange tabColor"
                                       ELSE "spreadsheets.get", FALSE)
    /\ lastCall' = [op |-> "handleMonthlyLocking", arg |-> 0, result |-> "ok", before |-> "-"]
    /\ passLog' = NoPass
    /\ jobLog' = NoJobLog
    /\ UNCHANGED <<now, breakerVars, quotaVars, anomalyVars, sheetVars, dbVars, schedVars,
                   requests, sweep, passVars, approving>>

submitRequest(s, m) ==
    /\ s \in activeSheets
    /\ requests' = Append(requests, [sheet |-> s, month |-> m, status |-> "PENDING",
                                     expiresAt |-> 0])
    /\ lastCall' = NoCall
    /\ Noted(NoPass, NoExt, NoJobLog)
    /\ UNCHANGED <<now, breakerVars, quotaVars, anomalyVars, sideVars, sheetVars, dbVars, schedVars, lockedMonths,
                   sweep, passVars>>

approveRequest(id) ==
    /\ id \in 1..Len(requests)
    /\ requests[id].status = "PENDING"
    /\ lastExt' = ExtCall(requests[id].sheet, "spreadsheets.get", FALSE)
    /\ IF UnlockRaises(requests[id].sheet, requests[id].month)
       THEN UNCHANGED <<requests, lockedMonths, protections>>
       ELSE /\ lockedMonths' = [lockedMonths EXCEPT ![requests[id].sheet] =
                                   @ \ {requests[id].month}]
            /\ protections' = RangeDeleted(protections, requests[id].sheet,
                                           requests[id].month)
            /\ requests' = [requests EXCEPT ![id].status = "APPROVED",
                                            ![id].expiresAt = now + UNLOCK_WINDOW_SECONDS]
    /\ lastCall' = NoCall
    /\ passLog' = NoPass
    /\ jobLog' = NoJobLog
    /\ UNCHANGED <<now, breakerVars, quotaVars, anomalyVars, approving, sheetVars, dbVars,
                   schedVars, sweep, passVars>>

NoSweep == [pc |-> "idle", todo |-> <<>>]

ExpiredRequests ==
    {id \in 1..Len(requests) :
        requests[id].status = "APPROVED" /\ requests[id].expiresAt <= now}

SweepNext(sw) ==
    IF Len(sw.todo) > 1 THEN [pc |-> "lock", todo |-> Tail(sw.todo)] ELSE NoSweep

\* handleExpiredRequests: the query
SweepStart ==
    /\ sweep.pc = "idle"
    /\ ExpiredRequests # {}
    /\ sweep' = [pc |-> "lock", todo |-> SeqOfSet(ExpiredRequests)]
    /\ lastCall' = NoCall
    /\ Noted(NoPass, NoExt, NoJobLog)
    /\ UNCHANGED <<now, breakerVars, quotaVars, anomalyVars, sideVars, sheetVars, dbVars, schedVars, requests,
                   lockedMonths, passVars>>

\* the loop body up to the call of processSheet: lockMonth, then the pass
SweepLock ==
    /\ sweep.pc = "lock"
    /\ LET r == requests[Head(sweep.todo)]
       IN  /\ lastExt' = ExtCall(r.sheet, "spreadsheets.get", FALSE)
           /\ IF LockRaises(r.sheet, r.month)
              THEN /\ sweep' = SweepNext(sweep)
                   /\ UNCHANGED <<lockedMonths, protections, ctx>>
              ELSE /\ protections[r.sheet][r.month] < MaxRanges
                   /\ lockedMonths' = [lockedMonths EXCEPT ![r.sheet] = @ \cup {r.month}]
                   /\ protections' = RangeAdded(protections, r.sheet, r.month)
                   /\ ctx' = [ctx EXCEPT !["sweep"] = ProcessSheetBegins(r.sheet)]
                   /\ sweep' = [sweep EXCEPT !.pc = "sync"]
    /\ lastCall' = NoCall
    /\ passLog' = NoPass
    /\ jobLog' = NoJobLog
    /\ UNCHANGED <<now, breakerVars, quotaVars, anomalyVars, approving, sheetVars, dbVars,
                   schedVars, requests, cache>>

\* processSheet has returned or raised: close the grant, or log the error
SweepFinish ==
    /\ sweep.pc = "sync"
    /\ ctx["sweep"].pc \in {"done", "raised"}
    /\ requests' = IF ctx["sweep"].pc = "done"
                   THEN [requests EXCEPT ![Head(sweep.todo)].status = "REJECTED"]
                   ELSE requests
    /\ sweep' = SweepNext(sweep)
    /\ ctx' = [ctx EXCEPT !["sweep"] = NoCtx]
    /\ lastCall' = NoCall
    /\ Noted(NoPass, NoExt, NoJobLog)
    /\ UNCHANGED <<now, breakerVars, quotaVars, anomalyVars, sideVars, sheetVars, dbVars, schedVars, lockedMonths,
                   cache>>

\* ------------------------------------------------------------------ environment
RowCount(s) == Len(sheetRows[s][TabNames[1]]) + Len(sheetRows[s][TabNames[2]])

\* a user types a new row below the last one,
AddRow(s, tab, d, a) ==
    /\ s \in activeSheets
    /\ RowCount(s) < MaxRows
    /\ sheetRows' = [sheetRows EXCEPT ![s][tab] = Append(@, TypedRow(d, a))]
    /\ lastCall' = NoCall
    /\ Noted(NoPass, NoExt, NoJobLog)
    /\ UNCHANGED <<now, breakerVars, quotaVars, anomalyVars, sideVars, sheetBroken, dbVars, schedVars, lockVars,
                   passVars>>

\* or changes the amount or the date of a row typed before
EditAmount(s, tab, i, a) ==
    /\ i \in 1..Len(sheetRows[s][tab])
    /\ sheetRows[s][tab][i].description # <<>>
    /\ sheetRows[s][tab][i].amount # a
    /\ sheetRows' = [sheetRows EXCEPT ![s][tab][i].amount = a]
    /\ lastCall' = NoCall
    /\ Noted(NoPass, NoExt, NoJobLog)
    /\ UNCHANGED <<now, breakerVars, quotaVars, anomalyVars, sideVars, sheetBroken, dbVars, schedVars, lockVars,
                   passVars>>

EditDate(s, tab, i, d) ==
    /\ i \in 1..Len(sheetRows[s][tab])
    /\ sheetRows[s][tab][i].description # <<>>
    /\ sheetRows[s][tab][i].date # d
    /\ sheetRows' = [sheetRows EXCEPT ![s][tab][i].date = d]
    /\ lastCall' = NoCall
    /\ Noted(NoPass, NoExt, NoJobLog)
    /\ UNCHANGED <<now, breakerVars, quotaVars, anomalyVars, sideVars, sheetBroken, dbVars, schedVars, lockVars,
                   passVars>>

\* or retypes the description of a row, as text or as a formula
DescriptionCells == {DescriptionCell, <<"=", "2">>, <<" ", "+", "r", "e", "n", "t">>}

EditDescription(s, tab, i, d) ==
    /\ i \in 1..Len(sheetRows[s][tab])
    /\ sheetRows[s][tab][i].description # <<>>
    /\ sheetRows[s][tab][i].description # d
    /\ sheetRows' = [sheetRows EXCEPT ![s][tab][i].description = d]
    /\ lastCall' = NoCall
    /\ Noted(NoPass, NoExt, NoJobLog)
    /\ UNCHANGED <<now, breakerVars, quotaVars, anomalyVars, sideVars, sheetBroken, dbVars, schedVars, lockVars,
                   passVars>>

\* the sheet is deleted or access is revoked, and later restored
SheetBreaks(s) ==
    /\ s \in activeSheets
    /\ ~sheetBroken[s]
    /\ sheetBroken' = [sheetBroken EXCEPT ![s] = TRUE]
    /\ lastCall' = NoCall
    /\ Noted(NoPass, NoExt, NoJobLog)
    /\ UNCHANGED <<now, breakerVars, quotaVars, anomalyVars, sideVars, sheetRows, dbVars, schedVars, lockVars,
                   passVars>>

SheetRecovers(s) ==
    /\ sheetBroken[s]
    /\ sheetBroken' = [sheetBroken EXCEPT ![s] = FALSE]
    /\ lastCall' = NoCall
    /\ Noted(NoPass, NoExt, NoJobLog)
    /\ UNCHANGED <<now, breakerVars, quotaVars, anomalyVars, sideVars, sheetRows, dbVars, schedVars, lockVars,
                   passVars>>

\* --------------------------------------------------------------------- clock
BreakerTick == RESET_TIMEOUT_SECONDS \div 2
QuotaTick == WINDOW_SECONDS
BackoffTick == BACKOFF_BASE
PipelineTick == UNLOCK_WINDOW_SECONDS

ClockAdvance(d, ticks) ==
    /\ now + d <= ticks * d
    /\ now' = now + d
    /\ circuit' = ExpireKeys(circuit, now + d)
    /\ consec' = [s \in Sheets |->
                    IF consec[s] > 0 /\ now + d - lastFailAt[s] >= RESET_TIMEOUT_SECONDS
                    THEN 0 ELSE consec[s]]
    /\ lastFailAt' = lastFailAt
    /\ rateCount' = ExpireCounts(rateCount, now + d)
    /\ opsStarted' = IF opsStarted.window = WindowStart(now + d) THEN opsStarted
                     ELSE [window |-> WindowStart(now + d), n |-> 0]
    /\ cache' = ExpireDigests(cache, now + d)
    /\ lastCall' = [op |-> "tick", arg |-> d, result |-> "ok", before |-> "-"]
    /\ Noted(NoPass, NoExt, NoJobLog)
    /\ UNCHANGED <<caller, sheetVars, dbVars, schedVars, lockVars, ctx, anomalyVars, sideVars>>

\* ------------------------------------------------------------ specifications
EmptySheets == [s \in Sheets |-> [tab \in Tabs |-> <<>>]]

\* the tokens other processes have taken in the window that begins at 0
Preloaded(used) ==
    IF used = 0 THEN <<>>
    ELSE [k \in {0} |-> [n |-> used, expireAt |-> WINDOW_SECONDS + 5]]

InitState(st, used) ==
    /\ now = 0
    /\ circuit = [s \in Sheets |-> NoKey]
    /\ consec = [s \in Sheets |-> 0]
    /\ lastFailAt = [s \in Sheets |-> 0]
    /\ lastCall = NoCall
    /\ rateCount = Preloaded(used)
    /\ caller = [p \in Callers |-> Idle]
    /\ opsStarted = [window |-> 0, n |-> used]
    /\ sheetBroken = [s \in Sheets |-> FALSE]
    /\ staged = st
    /\ ledger = <<>>
    /\ cache = [s \in Sheets |-> [tab \in Tabs |-> NoDigest]]
    /\ nextUuid = Len(st) + 1
    /\ passLog = NoPass
    /\ queue = <<>>
    /\ job = NoJob
    /\ ctx = [x \in Ctxs |-> NoCtx]
    /\ requests = <<>>
    /\ lockedMonths = [s \in Sheets |-> {}]
    /\ sweep = NoSweep
    /\ lastExt = NoExt
    /\ jobLog = NoJobLog
    /\ anomalies = <<>>
    /\ scanned = {}
    /\ approving = [a \in Approvers |-> NotApproving]
    /\ protections = [s \in Sheets |-> [tab \in Tabs |-> 0]]

\* no staged rows yet
InitCommon == InitState(<<>>, 0)

\* Scheduling: the periodic trigger, the worker with its circuit breaker, the
\* unlock grants and their expiry sweep, and a provider that may be down; the
\* first sheet is registered and active and holds one typed row.
Init ==
    /\ InitCommon
    /\ sheetRows = [EmptySheets EXCEPT ![1][TabNames[1]] = <<TypedRow("2025-01-15", "1000")>>]
    /\ accountActive = TRUE
    /\ activeSheets = {1}

Next ==
    \/ Len(queue) < MaxQueue /\ handleCron
    \/ \E redisFault \in BOOLEAN : WorkerTake(redisFault)
    \/ \E x \in Ctxs : FetchTab(x)
    \/ \E x \in Ctxs : ReconcileTab(x, 0)
    \/ WorkerFinish
    \/ Len(requests) < MaxRequests /\ \E s \in Sheets, m \in RequestMonths : submitRequest(s, m)
    \/ \E id \in 1..MaxRequests : approveRequest(id)
    \/ SweepStart
    \/ SweepLock
    \/ SweepFinish
    \/ \E s \in Sheets : SheetBreaks(s)
    \/ \E s \in Sheets : SheetRecovers(s)
    \/ \E s \in activeSheets : resetCircuit(s) /\ UNCHANGED <<now, quotaVars, pipelineVars>>
    \/ ClockAdvance(PipelineTick, PipelineTicks)

Spec == Init /\ [][Next]_vars

\* Reconciliation and approval of one sheet, taken one at a time: users edit
\* and administrators decide between two runs of the worker.
IngestInit ==
    /\ InitCommon
    /\ sheetRows = EmptySheets
    /\ accountActive \in BOOLEAN
    /\ activeSheets = {1}

WorkerIdle == job = NoJob /\ queue = <<>>

IngestNext ==
    \/ /\ WorkerIdle
       /\ \E s \in Sheets, tab \in Tabs, d \in DateCells, a \in AmountCells : AddRow(s, tab, d, a)
    \/ /\ WorkerIdle
       /\ \E s \in Sheets, tab \in Tabs, i \in 1..MaxRows, a \in AmountCells :
            EditAmount(s, tab, i, a)
    \/ /\ WorkerIdle
       /\ \E s \in Sheets, tab \in Tabs, i \in 1..MaxRows, d \in DateCells :
            EditDate(s, tab, i, d)
    \/ /\ WorkerIdle
       /\ \E id \in StagedIds, updateFails \in BOOLEAN : approve(id, updateFails)
    \/ /\ WorkerIdle
       /\ \E id \in StagedIds : reject(id)
    \/ Len(queue) < MaxQueue /\ handleCron
    \/ Len(queue) < MaxQueue /\ triggerManualSync
    \/ WorkerTake(FALSE)
    \/ FetchTab("worker")
    \/ ReconcileTab("worker", 0)
    \/ WorkerFinish

IngestSpec == IngestInit /\ [][IngestNext]_vars

\* The queue with both producers and its one worker: every registered sheet is
\* active, so each trigger enqueues one job per sheet.
QueueInit ==
    /\ InitCommon
    /\ sheetRows = EmptySheets
    /\ accountActive = TRUE
    /\ activeSheets = Sheets

QueueNext ==
    \/ Len(queue) < MaxWaiting /\ handleCron
    \/ Len(queue) < MaxWaiting /\ triggerManualSync
    \/ \E redisFault \in BOOLEAN : WorkerTake(redisFault)
    \/ FetchTab("worker")
    \/ ReconcileTab("worker", 0)
    \/ WorkerFinish

QueueSpec == QueueInit /\ [][QueueNext]_vars

\* Passes over a tab of two typed rows in which the anomaly scan of a row may
\* raise, with approvals and rejections between the runs of the worker.
RowsInit ==
    /\ InitCommon
    /\ sheetRows = [EmptySheets EXCEPT ![1][TabNames[1]] =
                        <<TypedRow("2025-01-15", "1000"), TypedRow("2025-01-15", "$2,000")>>]
    /\ accountActive = TRUE
    /\ activeSheets = {1}

RowsNext ==
    \/ Len(queue) < MaxQueue /\ handleCron
    \/ WorkerTake(FALSE)
    \/ FetchTab("worker")
    \/ \E rowFault \in 0..MaxFaultRow : ReconcileTab("worker", rowFault)
    \/ WorkerFinish
    \/ /\ WorkerIdle
       /\ \E id \in StagedIds : approve(id, FALSE)
    \/ /\ WorkerIdle
       /\ \E id \in StagedIds : reject(id)
    \/ /\ WorkerIdle
       /\ \E ids \in BulkLists : \E faults \in SUBSET (1..Len(ids)) : bulkApprove(ids, faults)

RowsSpec == RowsInit /\ [][RowsNext]_vars

\* Passes that can raise at a row or at a provider call, over a sheet whose one
\* row users edit between passes; both triggers.
FaultNext ==
    \/ /\ WorkerIdle
       /\ \E s \in Sheets, tab \in Tabs, i \in 1..MaxRows, a \in AmountCells :
            EditAmount(s, tab, i, a)
    \/ Len(queue) < MaxQueue /\ handleCron
    \/ Len(queue) < MaxQueue /\ triggerManualSync
    \/ WorkerTake(FALSE)
    \/ FetchTab("worker")
    \/ \E rowFault \in 0..MaxRows : ReconcileTab("worker", rowFault)
    \/ WorkerFinish
    \/ \E s \in Sheets : SheetBreaks(s)
    \/ \E s \in Sheets : SheetRecovers(s)

FaultSpec == Init /\ [][FaultNext]_vars

\* The lock endpoints called for every registered sheet, with a provider that
\* may be down.
LockNext ==
    \/ \E s \in Sheets, m \in MonthArgs : lockMonth(s, m)
    \/ \E s \in Sheets, m \in MonthArgs : unlockMonth(s, m)
    \/ \E s \in Sheets : SheetBreaks(s)
    \/ \E s \in Sheets : SheetRecovers(s)

LockSpec == QueueInit /\ [][LockNext]_vars

\* Unlock grants for one closed month of one sheet: the month is locked, heads
\* of department ask for it twice, and the grants are approved half a window
\* apart; the expiry sweep and the monthly lock run at any time.
GrantTick == UNLOCK_WINDOW_SECONDS \div 2

GrantNext ==
    \/ /\ \A id \in 1..Len(requests) : requests[id].status = "PENDING"
       /\ lockMonth(1, TabNames[1])
    \/ Len(requests) < MaxGrants /\ submitRequest(1, TabNames[1])
    \/ \E id \in 1..MaxGrants : approveRequest(id)
    \/ SweepStart
    \/ SweepLock
    \/ FetchTab("sweep")
    \/ ReconcileTab("sweep", 0)
    \/ SweepFinish
    \/ handleMonthlyLocking
    \/ ClockAdvance(GrantTick, GrantTicks)

GrantSpec == Init /\ [][GrantNext]_vars

\* Passes over a sheet whose one row users retype the description of, with
\* rejections between the passes.
SanitizeNext ==
    \/ /\ WorkerIdle
       /\ \E s \in Sheets, tab \in Tabs, i \in 1..MaxRows, d \in DescriptionCells :
            EditDescription(s, tab, i, d)
    \/ /\ WorkerIdle
       /\ \E id \in 1..MaxStaged : reject(id)
    \/ Len(queue) < MaxQueue /\ handleCron
    \/ Len(queue) < MaxQueue /\ triggerManualSync
    \/ WorkerTake(FALSE)
    \/ FetchTab("worker")
    \/ ReconcileTab("worker", 0)
    \/ WorkerFinish

SanitizeSpec == Init /\ [][SanitizeNext]_vars

\* Administrators approving at the same time: two staged rows of one sheet,
\* both PENDING, and approve calls whose statements interleave.
PendingRows ==
    <<NewStaged(1, "Jan", 1, TypedRow("2025-01-15", "1000"), 1, DescriptionCell, CategoryCell),
      NewStaged(1, "Jan", 2, TypedRow("2025-01-15", "$2,000"), 2, DescriptionCell,
                CategoryCell)>>

ApproveInit ==
    /\ InitState(PendingRows, 0)
    /\ sheetRows = [EmptySheets EXCEPT ![1]["Jan"] =
                        <<[TypedRow("2025-01-15", "1000") EXCEPT !.status = "STAGED", !.uuid = 1],
                          [TypedRow("2025-01-15", "$2,000") EXCEPT !.status = "STAGED",
                                                                   !.uuid = 2]>>]
    /\ accountActive = TRUE
    /\ activeSheets = {1}

ApproveNext ==
    \/ \E a \in Approvers, id \in StagedIds : approveRead(a, id)
    \/ \E a \in Approvers : approveCreate(a)
    \/ \E a \in Approvers : approveUpdate(a)

ApproveSpec == ApproveInit /\ [][ApproveNext]_vars

\* A sheet whose first tab holds as many staged rows as the velocity threshold,
\* or one more, and whose second tab holds a row staged after them; the digests
\* of the cache have expired. Users edit or clear the first row's amount and an
\* administrator rejects it between the passes.
VelocityRecords(n) ==
    [k \in 1..(n + 1) |->
        IF k <= n
        THEN NewStaged(1, TabNames[1], k, TypedRow("2025-01-15", "1000"), k, DescriptionCell,
                       CategoryCell)
        ELSE NewStaged(1, TabNames[2], 1, TypedRow("2025-02-03", "1000"), k, DescriptionCell,
                       CategoryCell)]

VelocityInit ==
    /\ \E n \in {VELOCITY_THRESHOLD, VELOCITY_THRESHOLD + 1} :
        /\ InitState(VelocityRecords(n), 0)
        /\ sheetRows = [EmptySheets EXCEPT
                ![1][TabNames[1]] =
                    [k \in 1..n |-> [TypedRow("2025-01-15", "1000") EXCEPT !.status = "STAGED",
                                                                          !.uuid = k]],
                ![1][TabNames[2]] =
                    <<[TypedRow("2025-02-03", "1000") EXCEPT !.status = "STAGED",
                                                             !.uuid = n + 1]>>]
    /\ accountActive = TRUE
    /\ activeSheets = {1}

VelocityNext ==
    \/ /\ WorkerIdle
       /\ \E i \in 1..MaxRows, a \in AmountCells : EditAmount(1, TabNames[1], i, a)
    \/ /\ WorkerIdle
       /\ \E id \in 1..MaxRows : reject(id)
    \/ Len(queue) < MaxQueue /\ handleCron
    \/ Len(queue) < MaxQueue /\ triggerManualSync
    \/ WorkerTake(FALSE)
    \/ FetchTab("worker")
    \/ ReconcileTab("worker", 0)
    \/ WorkerFinish

VelocitySpec == VelocityInit /\ [][VelocityNext]_vars

\* The circuit breaker service under arbitrary call sequences.
BreakerNext ==
    \/ \E s \in Sheets : recordFailure(s) /\ UNCHANGED <<now, quotaVars, pipelineVars>>
    \/ \E s \in Sheets : recordSuccess(s) /\ UNCHANGED <<now, quotaVars, pipelineVars>>
    \/ \E s \in Sheets : resetCircuit(s) /\ UNCHANGED <<now, quotaVars, pipelineVars>>
    \/ ClockAdvance(BreakerTick, BreakerTicks)

BreakerSpec == Init /\ [][BreakerNext]_vars

\* The quota governor under concurrent executeWithBackoff callers.
QuotaNext ==
    \/ \E p \in Callers : Call(p)
    \/ \E p \in Callers : Acquire(p)
    \/ \E p \in Callers : WaitOver(p)
    \/ \E p \in Callers : OperationReturns(p)
    \/ \E p \in Callers : OperationRateLimited(p)
    \/ \E p \in Callers : BackoffOver(p)
    \/ \E p \in Callers : OperationFails(p)
    \/ ClockAdvance(QuotaTick, QuotaTicks)

QuotaSpec == Init /\ [][QuotaNext]_vars

\* One executeWithBackoff call, with the default maxRetries or with one retry,
\* made at time 0 on a clock fine enough for the back-off delays; other
\* processes have taken none of the window's tokens, or all but one.
RetryLimits == {1, DEFAULT_MAX_RETRIES}

BackoffInit ==
    /\ \E used \in {0, MAX_REQUESTS_PER_MINUTE - 1} : InitState(<<>>, used)
    /\ sheetRows = EmptySheets
    /\ accountActive = TRUE
    /\ activeSheets = {1}

BackoffNext ==
    \/ lastCall = NoCall /\ \E maxRetries \in RetryLimits : CallWith(1, maxRetries)
    \/ Acquire(1)
    \/ WaitOver(1)
    \/ OperationReturns(1)
    \/ OperationRateLimited(1)
    \/ BackoffOver(1)
    \/ OperationFails(1)
    \/ ClockAdvance(BackoffTick, BackoffTicks)

BackoffSpec == BackoffInit /\ [][BackoffNext]_vars

\* ---------------------------------------------------------------- anomaly engine
SUSPICIOUS_KEYWORDS == {<<"g", "i", "f", "t">>, <<"p", "e", "r", "s", "o", "n", "a", "l">>,
                        <<"l", "o", "a", "n">>}
FORBIDDEN_CURRENCY_SYMBOLS == {<<"$">>, <<"euro">>, <<"pound">>, <<"b", "t", "c">>,
                               <<"e", "t", "h">>}

\* department.budgetLimit
BudgetLimit == 3000

\* String.prototype.toLowerCase on the letters used here
LowerChar(c) == CASE c = "L" -> "l" [] c = "R" -> "r" [] OTHER -> c
ToLowerCase(t) == [k \in 1..Len(t) |-> LowerChar(t[k])]

\* String.prototype.includes
Includes(t, sub) ==
    \E k \in 0..(Len(t) - Len(sub)) : \A j \in 1..Len(sub) : t[k + j] = sub[j]

\* the characters of an amount cell
AmountChars(a) ==
    CASE a = "1000" -> <<"1", "0", "0", "0">>
      [] a = "$2,000" -> <<"$", "2", ",", "0", "0", "0">>
      [] OTHER -> <<>>

\* new Date(tx.date).getDay() is 0 or 6
IsWeekend(d) == d = "2025-01-18"

\* the conditions under which the five checks of scanTransaction report
checkDuplicates(tx) ==
    /\ staged[tx].description # <<>>
    /\ \E o \in 1..Len(staged) :
            /\ o # tx
            /\ staged[o].amount = staged[tx].amount
            /\ ToLowerCase(staged[o].description) = ToLowerCase(staged[tx].description)
            /\ staged[o].sheet # staged[tx].sheet
            /\ staged[o].status \in {"PENDING", "APPROVED"}

checkSpikes(tx) == 2 * staged[tx].amount > BudgetLimit

checkKeywords(tx) ==
    /\ staged[tx].description # <<>>
    /\ \E w \in SUSPICIOUS_KEYWORDS : Includes(ToLowerCase(staged[tx].description), w)

checkCurrency(tx, rawAmount) ==
    \E w \in FORBIDDEN_CURRENCY_SYMBOLS :
        Includes(ToLowerCase(staged[tx].description \o <<" ">> \o AmountChars(rawAmount)), w)

checkDateValidity(tx) == staged[tx].date # "" /\ IsWeekend(staged[tx].date)

\* the anomaly types scanTransaction reports for the row, in the order of its checks
ScanFindings(tx, rawAmount) ==
    LET found(c, type) == IF c THEN <<type>> ELSE <<>>
    IN  found(checkDuplicates(tx), "DUPLICATE") \o found(checkSpikes(tx), "SPIKE")
        \o found(checkKeywords(tx), "KEYWORD") \o found(checkCurrency(tx, rawAmount), "CURRENCY")
        \o found(checkDateValidity(tx), "DATE")

RECURSIVE AnomaliesCreated(_, _, _)
AnomaliesCreated(anoms, tx, types) ==
    IF types = <<>> THEN anoms
    ELSE AnomaliesCreated(createAnomaly(anoms, tx, Head(types)), tx, Tail(types))

\* scanTransaction(txId, rawAmountStr); the callers pass the amount cell the
\* staged amount was parsed from
scanTransaction(tx, rawAmount) ==
    /\ tx \in 1..Len(staged)
    /\ CleanAmount(rawAmount) = staged[tx].amount
    /\ Len(AnomaliesCreated(anomalies, tx, ScanFindings(tx, rawAmount))) <= MaxAnomalies
    /\ anomalies' = AnomaliesCreated(anomalies, tx, ScanFindings(tx, rawAmount))
    /\ scanned' = scanned \cup {tx}
    /\ lastCall' = [op |-> "scanTransaction", arg |-> tx, result |-> rawAmount,
                    before |-> IF tx \in scanned THEN "scanned" ELSE "-"]
    /\ UNCHANGED <<now, breakerVars, quotaVars, sheetVars, dbVars, schedVars, lockVars,
                   passVars, histVars, sideVars>>

\* checkVelocity(externalSheetId, count)
checkVelocity(s, count) ==
    /\ LET flagged == VelocityChecked(anomalies, staged, s, count)
       IN  /\ Len(flagged) <= MaxAnomalies
           /\ anomalies' = flagged
    /\ lastCall' = [op |-> "checkVelocity", arg |-> s, result |-> "ok", before |-> "-"]
    /\ UNCHANGED <<now, breakerVars, quotaVars, sheetVars, dbVars, schedVars, lockVars,
                   passVars, histVars, sideVars, scanned>>

\* ignoreAnomaly(id, email)
ignoreAnomaly(id) ==
    /\ id \in 1..Len(anomalies)
    /\ Cardinality({k \in 1..Len(anomalies) : anomalies[k].isIgnored}) < MaxIgnored
    /\ anomalies' = [anomalies EXCEPT ![id].isIgnored = TRUE]
    /\ lastCall' = [op |-> "ignoreAnomaly", arg |-> id, result |-> "ok", before |-> "-"]
    /\ UNCHANGED <<now, breakerVars, quotaVars, sheetVars, dbVars, schedVars, lockVars,
                   passVars, histVars, sideVars, scanned>>

\* The anomaly engine called one call at a time on a fixed table of staged
\* rows: two rows of two sheets with the same amount and description, and a
\* large dollar loan dated on a Saturday.
AnomalyRows(status2) ==
    <<NewStaged(1, "Jan", 1, TypedRow("2025-01-15", "1000"), 1, DescriptionCell, CategoryCell),
      [NewStaged(2, "Jan", 1, TypedRow("2025-01-15", "1000"), 2, <<"R", "e", "n", "t">>,
                 CategoryCell) EXCEPT !.status = status2],
      NewStaged(1, "Jan", 2, TypedRow("2025-01-18", "$2,000"), 3, <<"L", "o", "a", "n">>,
                CategoryCell)>>

AnomalyInit ==
    /\ \E status2 \in {"PENDING", "REJECTED"} : InitState(AnomalyRows(status2), 0)
    /\ sheetRows = EmptySheets
    /\ accountActive = TRUE
    /\ activeSheets = Sheets

AnomalyNext ==
    \/ \E tx \in 1..Len(staged) : \E rawAmount \in AmountCells : scanTransaction(tx, rawAmount)
    \/ \E s \in Sheets : \E count \in {VELOCITY_THRESHOLD, VELOCITY_THRESHOLD + 1} :
            checkVelocity(s, count)
    \/ \E id \in 1..Len(anomalies) : ignoreAnomaly(id)

AnomalySpec == AnomalyInit /\ [][AnomalyNext]_vars

\* ------------------------------------------------------------------- claims
\* a step of ReconcileTab in context x: one tab's iteration ends
TabIterationEnds(x) == ctx[x].pc = "rows" /\ ctx'[x].pc # "rows"

PromotedFrom(id) == {k \in 1..Len(ledger) : ledger[k].from = id}

RecordsOf(st, u) == {k \in 1..Len(st) : st[k].syncUuid = u}

\* rows that processSheet stages: an amount is filled in and the date parses
Stageable(row) == ~IsBlankAmount(row.amount) /\ ~IsInvalidDate(row.date)

\* C1: the number of ledger transactions promoted from one staged row never
\* exceeds 1, whatever sequence of approve calls is made.
C1_AtMostOnePromotionPerRow ==
    \A id \in 1..Len(staged) : Cardinality(PromotedFrom(id)) <= 1

C3_ChangedApprovedRowMarkedConflict ==
    [][(TabIterationEnds("worker") /\ ~passLog'.skipped /\ ~passLog'.raised) =>
        LET s == ctx["worker"].sheet
            tab == TabNames[ctx["worker"].tabIdx]
            rows == ctx["worker"].rows
        IN  \A i \in 1..Len(rows) : \A k \in RecordsOf(staged, rows[i].uuid) :
                (staged[k].status = "APPROVED" /\ staged[k].rawDataHash # Md5(rows[i])) =>
                    /\ sheetRows'[s][tab][i].status = "CONFLICT"
                    /\ staged'[k] = staged[k]]_vars

\* C4: approve and reject on a row that is already APPROVED or REJECTED fail
\* and leave the staged rows and the ledger unchanged.
C4_ResolvedRowRefusesDecision ==
    [][\A id \in 1..Len(staged) :
        (/\ lastCall'.op \in {"approve", "reject"}
         /\ lastCall'.arg = id
         /\ staged[id].status \in {"APPROVED", "REJECTED"}) =>
            /\ lastCall'.result \in {"BadRequest", "NotFound"}
            /\ staged' = staged
            /\ ledger' = ledger]_vars


\* C5: for each sheet the circuit is open exactly while at least
\* FAILURE_THRESHOLD recordFailure calls have happened since the last
\* recordSuccess, resetCircuit or expiry of the cool-down (30 minutes after the
\* last recorded failure); and a failure recorded for one sheet leaves every
\* other sheet's circuit as it was.
C5_CircuitFollowsConsecutiveFailures ==
    /\ [](\A s \in Sheets : isCircuitOpen(s) <=> consec[s] >= FAILURE_THRESHOLD)
    /\ [][\A s \in Sheets :
            (lastCall'.op = "recordFailure" /\ lastCall'.arg = s)
                => \A t \in Sheets \ {s} : circuit'[t] = circuit[t]]_vars

C5_Witness ==
    /\ isCircuitOpen(1)
    /\ consec[1] = FAILURE_THRESHOLD
    /\ lastCall = [op |-> "recordFailure", arg |-> 1, result |-> "tripped", before |-> "-"]
    /\ consec[2] = FAILURE_THRESHOLD - 1
    /\ ~isCircuitOpen(2)

\* C6: a job whose reconciliation raised is recorded as a failure of its sheet.
C6_RaisedPassRecordsFailure == jobLog.raised => jobLog.recorded = "failure"

\* C7: no reconciliation pass starts for a sheet whose circuit is open,
\* whether the worker or the expiry sweep starts it.
C7_NoPassWhileCircuitOpen ==
    [][\A x \in Ctxs :
        (ctx[x].pc = "idle" /\ ctx'[x].pc # "idle") => ~isCircuitOpen(ctx'[x].sheet)]_vars

\* C8: no more than MAX_REQUESTS_PER_MINUTE wrapped operations start within
\* one window of WINDOW_SECONDS.
C8_AtMostBudgetStartsPerWindow == opsStarted.n <= MAX_REQUESTS_PER_MINUTE

\* C9: a pass over a tab whose fetched rows hash to the stored digest writes
\* nothing to the sheet, creates and updates no staged row, runs no anomaly
\* scan and makes no provider call for the tab.
C9_UnchangedTabIsSkipped ==
    [][(/\ TabIterationEnds("worker")
        /\ cache[ctx["worker"].sheet][TabNames[ctx["worker"].tabIdx]].digest
                = computeHash(ctx["worker"].rows)) =>
            /\ staged' = staged
            /\ sheetRows' = sheetRows
            /\ lastExt' = NoExt
            /\ passLog'.created = 0 /\ passLog'.updated = 0
            /\ passLog'.scans = 0 /\ passLog'.writes = 0]_vars

\* the Jan tab, holding a row with a PENDING record, has just been skipped
C9_Witness ==
    /\ passLog.skipped /\ passLog.sheet = 1 /\ passLog.tab = "Jan"
    /\ Len(sheetRows[1]["Jan"]) > 0
    /\ \E k \in RecordsOf(staged, sheetRows[1]["Jan"][1].uuid) : staged[k].status = "PENDING"

\* C10: the worker and the expiry sweep are never inside processSheet at the
\* same time.
C10_OneReconciliationAtATime == ~(ctx["worker"].pc # "idle" /\ ctx["sweep"].pc # "idle")

\* C11: the job the worker starts has the lowest priority number among the
\* waiting jobs and is the earliest enqueued of those; a periodic job is never
\* started while a manual job is waiting.
C11_ManualFirstThenFifo ==
    [][(job = NoJob /\ job' # NoJob) =>
        /\ \E k \in 1..Len(queue) :
                /\ queue[k] = job'
                /\ queue' = Without(queue, k)
                /\ \A m \in 1..Len(queue) : queue[m].priority >= job'.priority
                /\ \A m \in 1..(k - 1) : queue[m].priority > job'.priority
        /\ job'.priority = PRIORITY_CRON =>
                \A m \in 1..Len(queue) : queue[m].priority # PRIORITY_MANUAL]_vars

\* a manual job was started ahead of the periodic jobs enqueued before it
C11_Witness ==
    /\ job = [sheet |-> 1, priority |-> PRIORITY_MANUAL, attemptsMade |-> 0]
    /\ queue = <<[sheet |-> 1, priority |-> PRIORITY_CRON, attemptsMade |-> 0],
                 [sheet |-> 2, priority |-> PRIORITY_CRON, attemptsMade |-> 0],
                 [sheet |-> 2, priority |-> PRIORITY_MANUAL, attemptsMade |-> 0]>>

\* C12: when the sweep is done with an expired grant, whether the re-lock and
\* the reconciliation pass succeeded or raised, the grant is no longer
\* APPROVED, so that no later sweep selects it again.
C12_SweptGrantLeavesApproved ==
    [][(sweep.pc \in {"lock", "sync"} /\ sweep'.todo # sweep.todo) =>
        requests'[Head(sweep.todo)].status # "APPROVED"]_vars

\* C13: a pass over a tab in which the handling of one row failed does not
\* raise, and every other fetched row that can be staged has its record.
C13_RowFailureDoesNotStopPass ==
    passLog.failedRow # 0 =>
        /\ ~passLog.raised
        /\ \A i \in 1..Len(sheetRows[passLog.sheet][passLog.tab]) :
                LET row == sheetRows[passLog.sheet][passLog.tab][i]
                IN  (i # passLog.failedRow /\ Stageable(row)) =>
                        \E k \in 1..Len(staged) :
                            staged[k].sheet = passLog.sheet /\ staged[k].rowIndex = i + 1

\* C14: after a pass over a tab that completed (not skipped by the cache, not
\* raised), every row of the tab that a user filled in has either a staged
\* record under its stable identifier or a marker in its status column.
C14_EveryRowStagedOrMarked ==
    (passLog.sheet # 0 /\ ~passLog.skipped /\ ~passLog.raised) =>
        \A i \in 1..Len(sheetRows[passLog.sheet][passLog.tab]) :
            LET row == sheetRows[passLog.sheet][passLog.tab][i]
            IN  row.description # <<>> =>
                    \/ row.uuid # 0 /\ RecordsOf(staged, row.uuid) # {}
                    \/ row.status # ""

\* C15: bulkApprove(ids) returns one entry per element of ids, in order; an id
\* whose approve fails gives an error entry and the ids after it are still
\* approved; an id is promoted to the ledger at most once by the call, also
\* when it occurs twice in ids.
C15_BulkApproveIsPerId ==
    [][lastCall'.op = "bulkApprove" =>
        LET ids == lastCall'.arg
            res == lastCall'.results
        IN  /\ Len(res) = Len(ids)
            /\ \A k \in 1..Len(ids) : res[k].id = ids[k]
            /\ \A k \in 1..Len(ids) :
                    (Promotes(ids[k]) /\ \A j \in 1..(k - 1) : ids[j] # ids[k]) =>
                        \E n \in 1..Len(ledger') : n > Len(ledger) /\ ledger'[n].from = ids[k]
            /\ \A k \in 1..Len(ids) :
                    Cardinality({n \in 1..Len(ledger') :
                                    n > Len(ledger) /\ ledger'[n].from = ids[k]}) <= 1]_vars

\* C16: every call to the spreadsheet provider (range read, batched marker
\* write, protect and unprotect, tab colour, approval and rejection feedback)
\* is made through executeWithBackoff, that is after an acquireToken for it.
C16_EveryProviderCallIsGoverned == lastExt.kind # "none" => lastExt.governed

\* C17: under scanTransaction, checkVelocity and ignoreAnomaly calls made one
\* at a time, a staged row never has two non-ignored anomalies of one type,
\* and a scanTransaction of a row that was scanned before creates no anomaly.
C17_OneAnomalyPerRowAndType ==
    [][/\ \A tx \in 1..Len(staged') : \A k, j \in 1..Len(anomalies') :
            (/\ anomalies'[k].tx = tx /\ anomalies'[j].tx = tx
             /\ anomalies'[k].type = anomalies'[j].type
             /\ ~anomalies'[k].isIgnored /\ ~anomalies'[j].isIgnored) => k = j
       /\ (lastCall'.op = "scanTransaction" /\ lastCall'.arg \in scanned) =>
            anomalies' = anomalies]_vars

\* the large loan row was scanned twice, the second scan just now, and one of
\* its anomalies is ignored
C17_Witness ==
    /\ lastCall.op = "scanTransaction" /\ lastCall.arg = 3
    /\ lastCall.before = "scanned"
    /\ \E k \in 1..Len(anomalies) : anomalies[k].tx = 3 /\ anomalies[k].isIgnored
    /\ \E k \in 1..Len(anomalies) : anomalies[k].tx = 3 /\ ~anomalies[k].isIgnored

\* C18: the stored fingerprint of a (sheet, tab) gets a new digest only in the
\* step that ends a pass over that tab in which no row step and no write-back
\* raised, the digest being that of the rows the pass fetched; a pass that
\* raises leaves every fingerprint as it was.
C18_FingerprintOnlyAfterSuccess ==
    [][/\ \A s \in Sheets : \A tab \in Tabs :
            (cache'[s][tab] # cache[s][tab] /\ cache'[s][tab] # NoDigest) =>
                /\ passLog'.sheet = s /\ passLog'.tab = tab
                /\ ~passLog'.raised /\ ~passLog'.skipped /\ passLog'.failedRow = 0
                /\ \E x \in Ctxs : /\ ctx[x].pc = "rows" /\ ctx[x].sheet = s
                                    /\ cache'[s][tab].digest = computeHash(ctx[x].rows)
       /\ passLog'.raised => cache' = cache]_vars

\* a pass over a tab that had a fingerprint has just raised at a row or at the
\* write-back: the fingerprint is there and is not the digest of the tab's rows
C18_Witness ==
    /\ passLog.raised
    /\ passLog.scans + passLog.writes > 0
    /\ cache[passLog.sheet][passLog.tab] # NoDigest
    /\ hasChanged(cache, passLog.sheet, passLog.tab, sheetRows[passLog.sheet][passLog.tab])

\* what is left of an executeWithBackoff call: the loop iterations to go and the
\* position inside the iteration
CallRank(c) ==
    IF c.pc = "idle" THEN 0
    ELSE 4 * (c.maxRetries + 1 - c.attempt)
         + (CASE c.pc = "acquire" -> 3 [] c.pc = "wait" -> 2 [] c.pc = "run" -> 1
              [] OTHER -> 0)

\* C19: executeWithBackoff terminates (every step of a call other than its
\* entry lowers CallRank, and its sleeps end at a finite time); the operation
\* is invoked at most maxRetries + 1 times; the k-th retry is not made before
\* the back-off of 2^k seconds scheduled at the k-th 429 is over; the rate-limit
\* error is re-raised only after maxRetries + 1 invocations; any other error is
\* raised in the step in which the operation fails, with no further invocation.
C19_BackoffTerminatesWithinRetries ==
    [][\A p \in Callers :
        /\ (caller[p].pc # "idle" /\ caller'[p] # caller[p]) =>
                CallRank(caller'[p]) < CallRank(caller[p])
        /\ caller'[p].pc \in {"wait", "backoff"} =>
                caller'[p].wakeAt <= now' + WINDOW_SECONDS
        /\ caller'[p].invoked <= caller'[p].maxRetries + 1
        /\ (caller[p].pc = "run" /\ caller'[p].pc = "backoff") =>
                caller'[p].wakeAt = now + 2 ^ caller[p].invoked
        /\ (caller[p].pc = "backoff" /\ caller'[p].pc = "acquire") =>
                /\ now >= caller[p].wakeAt
                /\ caller[p].invoked <= caller[p].maxRetries
        /\ (lastCall'.arg = p /\ lastCall'.result = "raised429") =>
                /\ caller[p].invoked = caller[p].maxRetries + 1
                /\ caller'[p].pc = "idle"
        /\ (lastCall'.arg = p /\ lastCall'.result = "raised") =>
                /\ caller[p].pc = "run" /\ caller'[p].pc = "idle"
                /\ caller[p].attempt = 0 => caller[p].invoked = 1]_vars

\* the default call has just re-raised the rate-limit error, after its fifth
\* invocation
C19_Witness ==
    /\ lastCall.op = "executeWithBackoff" /\ lastCall.result = "raised429"
    /\ lastCall.invoked = DEFAULT_MAX_RETRIES + 1

\* C20: lockMonth for the current calendar month, named by its full name or by
\* the title of its tab, fails and changes nothing: lockedMonths stays as it
\* was and no protected range or tab colour is sent to the spreadsheet.
C20_CurrentMonthIsNeverLocked ==
    [][(lastCall'.op = "lockMonth"
        /\ lastCall'.month \in {CurrentMonthName, CurrentMonthTab}) =>
            /\ lastCall'.result # "ok"
            /\ lockedMonths' = lockedMonths
            /\ lastExt'.kind \in {"none", "spreadsheets.get"}]_vars

\* C22: a ledger transaction promoted from a staged row exists only while that
\* row is APPROVED: none for a REJECTED row, and none left behind for a row
\* that is still PENDING after an approve that failed.
C22_PromotedOnlyIfApproved ==
    \A k \in 1..Len(ledger) : staged[ledger[k].from].status = "APPROVED"

\* C23: a pass over a tab changes the stored content of a staged record only
\* while the record is PENDING: a record that is APPROVED or REJECTED when the
\* pass runs is left as it was.
C23_ResolvedRecordLeftUnchanged ==
    [][TabIterationEnds("worker") =>
        \A k \in 1..Len(staged) :
            staged[k].status \in {"APPROVED", "REJECTED"} => staged'[k] = staged[k]]_vars

\* C24: an exception in the iteration of one tab ends only that iteration:
\* processSheet does not end with the exception while a later tab of the same
\* job has not been fetched.
C24_TabFailureEndsOnlyThatTab ==
    \A x \in Ctxs : ctx[x].pc = "raised" => ctx[x].tabIdx = Len(TabNames)

\* the cells of a row that users type: date, description, category, amount, receipt
UserCells(cells) == SubSeq(cells, 1, 5)

\* C25: a pass does not mark CONFLICT a row of an APPROVED record whose
\* user-entered cells are those the record's digest was computed from: the
\* markers and the identifier that the system writes are no content change.
C25_SystemMarkersAreNoConflict ==
    [][(TabIterationEnds("worker") /\ ~passLog'.raised) =>
        LET s == ctx["worker"].sheet
            tab == TabNames[ctx["worker"].tabIdx]
            rows == ctx["worker"].rows
        IN  \A i \in 1..Len(rows) : \A k \in RecordsOf(staged, rows[i].uuid) :
                (/\ staged[k].status = "APPROVED"
                 /\ UserCells(RowCells(rows[i])) = UserCells(staged[k].rawDataHash[2])) =>
                    sheetRows'[s][tab][i].status # "CONFLICT"]_vars

\* C26: across aborted and successful passes a row of a sheet has at most one
\* staged record: no two records are of the same sheet, tab and row.
C26_OneRecordPerSheetRow ==
    \A k, j \in 1..Len(staged) :
        (/\ staged[k].sheet = staged[j].sheet
         /\ staged[k].tab = staged[j].tab
         /\ staged[k].rowIndex = staged[j].rowIndex) => k = j

\* C21: when approve calls for one PENDING row run with their statements
\* interleaved, at most one ledger transaction is created for the row and at
\* most one of the calls succeeds: a call returns its transaction only for a
\* row that no other call has approved.
C21_ConcurrentApprovePromotesOnce ==
    [][/\ \A id \in 1..Len(staged) :
            Cardinality({k \in 1..Len(ledger') : ledger'[k].from = id}) <= 1
       /\ \A a \in Approvers :
            (approving[a].pc = "update" /\ approving'[a].pc = "idle") =>
                staged[approving[a].id].status = "PENDING"]_vars

\* C29: after any sequence of lockMonth and unlockMonth calls on a sheet and
\* month, the month is in lockedMonths exactly when its tab carries a
\* 'Monthly Close' protected range, and the tab never carries more than one.
C29_LockedIffOneProtectedRange ==
    \A s \in Sheets : \A m \in Tabs :
        /\ (m \in lockedMonths[s]) <=> (protections[s][m] > 0)
        /\ protections[s][m] <= 1

\* the staged records a tab's iteration creates or updates: the new ones, and
\* the records that are not APPROVED of the tab's rows that carry an
\* identifier, a filled amount and a date that parses
PassBatch(x) ==
    {k \in 1..Len(staged') :
        \/ k > Len(staged)
        \/ /\ staged[k].status # "APPROVED"
           /\ \E i \in 1..Len(ctx[x].rows) :
                /\ ctx[x].rows[i].uuid = staged[k].syncUuid
                /\ Stageable(ctx[x].rows[i])}

HasVelocity(anoms, k) == \E j \in 1..Len(anoms) : anoms[j].tx = k /\ anoms[j].type = "VELOCITY"

\* C27: a tab's iteration that creates and updates more rows than the
\* velocity threshold leaves a VELOCITY anomaly on each of these rows and gives
\* none to a row outside them; at or below the threshold it creates none.
C27_VelocityFlagsExactlyTheBatch ==
    [][(TabIterationEnds("worker") /\ ~passLog'.skipped /\ passLog'.failedRow = 0) =>
        \A k \in 1..Len(staged') :
            IF passLog'.created + passLog'.updated > VELOCITY_THRESHOLD /\ k \in PassBatch("worker")
            THEN HasVelocity(anomalies', k)
            ELSE HasVelocity(anomalies', k) => HasVelocity(anomalies, k)]_vars

\* C28: from the grant of approveRequest until its expiresAt the period stays
\* unlocked: while a grant is APPROVED and has not expired, its month is not
\* in the locked months of its sheet, whatever the sweep, the expiry of another
\* grant of the period or the monthly lock do.
C28_UnexpiredGrantKeepsMonthUnlocked ==
    \A id \in 1..Len(requests) :
        (requests[id].status = "APPROVED" /\ now < requests[id].expiresAt) =>
            requests[id].month \notin lockedMonths[requests[id].sheet]

\* C30: every description and category stored in the staging table is an
\* output of sanitizeString, on every write path: none begins with a formula
\* prefix, and sanitizing it again changes nothing.
C30_StoredTextIsSanitized ==
    \A k \in 1..Len(staged) :
        /\ staged[k].description = sanitizeString(staged[k].description)
        /\ staged[k].category = sanitizeString(staged[k].category)
        /\ staged[k].description # <<>> => Head(staged[k].description) \notin FORMULA_PREFIXES

====
